---- MODULE Spec2Model ----
(***************************************************************************)
(* PageSpeed Forensic Lab (streamlit_app.py): the scan handler             *)
(*   run_pagespeed -> get_grouped_audits -> extract_details -> tab loop    *)
(* as a state machine, with the pure helpers (clean_value, format_col,     *)
(* the description regex) as operators.                                    *)
(*                                                                         *)
(* JSON values are tagged records:                                         *)
(*   null   [t |-> "none"]                                                 *)
(*   number [t |-> "num",  v |-> n]      (integers; scores in hundredths)  *)
(*   string [t |-> "str",  v |-> "..."]                                    *)
(*   prose  [t |-> "text", v |-> <<atoms>>]  (a string kept as a sequence  *)
(*          of atoms, each one delimiter character or a run of others, so  *)
(*          that the regular expression can walk it)                       *)
(*   list   [t |-> "list", v |-> <<values>>]                               *)
(*   object [t |-> "dict", v |-> <<<<key, value>>, ...>>] in insertion     *)
(*          order, as a Python dict keeps it                               *)
(* Section 1 of the handler (CrUX vitals, lines 358-385) only writes to    *)
(* the page and is read by no later step; it is left out of the state.     *)
(***************************************************************************)
EXTENDS Integers, Sequences, FiniteSets, TLC

VARIABLES
    pc,               \* position of the handler
    url_input,        \* st.text_input "Target URL Endpoint" (sequence of characters)
    strategy,         \* st.selectbox "Device Emulation"
    api_key,          \* st.text_input "Google API Key"
    upstream,         \* what the single HTTP GET will meet
    api_url,          \* the URL handed to requests.get (sequence of fragments)
    data,             \* first component of run_pagespeed's result
    err,              \* second component of run_pagespeed's result
    grouped_findings, \* result of get_grouped_audits
    page,             \* what the handler has put on the page
    cell_key,         \* format_col's key argument
    cell_val,         \* format_col's val argument
    cell_out          \* the cell after each flattening pass

vars == <<pc, url_input, strategy, api_key, upstream, api_url, data, err,
          grouped_findings, page, cell_key, cell_val, cell_out>>

-----------------------------------------------------------------------------
(* JSON values and the Python operations the code applies to them *)

NoneV == [t |-> "none"]
NumV(n) == [t |-> "num", v |-> n]
StrV(s) == [t |-> "str", v |-> s]
TextV(s) == [t |-> "text", v |-> s]
ListV(l) == [t |-> "list", v |-> l]
DictV(d) == [t |-> "dict", v |-> d]
EmptyDict == DictV(<<>>)

\* raised exception travelling up the call stack
RaiseV == [t |-> "raise"]

IsDict(x) == x.t = "dict"

\* key in d
Has(d, k) == \E i \in DOMAIN d.v : d.v[i][1] = k

\* d.get(k, default)
Get(d, k, default) ==
    IF Has(d, k)
    THEN d.v[CHOOSE i \in DOMAIN d.v : d.v[i][1] = k][2]
    ELSE default

\* d[k] = x
DictSet(d, k, x) ==
    IF \E i \in DOMAIN d : d[i][1] = k
    THEN [i \in DOMAIN d |-> IF d[i][1] = k THEN <<k, x>> ELSE d[i]]
    ELSE Append(d, <<k, x>>)

\* bool(x)
Truthy(x) ==
    CASE x.t = "none" -> FALSE
      [] x.t = "num" -> x.v # 0
      [] x.t = "str" -> x.v # ""
      [] OTHER -> Len(x.v) > 0

Digits == <<"0", "1", "2", "3", "4", "5", "6", "7", "8", "9">>

RECURSIVE NatStr(_)
NatStr(n) == IF n < 10 THEN Digits[n + 1] ELSE NatStr(n \div 10) \o Digits[(n % 10) + 1]

\* str(n) of an integer
IntStr(n) == IF n < 0 THEN "-" \o NatStr(-n) ELSE NatStr(n)

RECURSIVE Join(_, _)
\* sep.join(parts)
Join(parts, sep) ==
    IF Len(parts) = 0 THEN ""
    ELSE IF Len(parts) = 1 THEN parts[1]
    ELSE parts[1] \o sep \o Join(Tail(parts), sep)

RECURSIVE PyRepr(_)
\* repr(x), as str() of a dict or list prints its members
PyRepr(x) ==
    CASE x.t = "none" -> "None"
      [] x.t = "num" -> IntStr(x.v)
      [] x.t = "str" -> "'" \o x.v \o "'"
      [] x.t = "text" -> "'" \o Join(x.v, "") \o "'"
      [] x.t = "list" -> "[" \o Join([i \in DOMAIN x.v |-> PyRepr(x.v[i])], ", ") \o "]"
      [] x.t = "dict" ->
            "{" \o Join([i \in DOMAIN x.v |->
                           "'" \o x.v[i][1] \o "': " \o PyRepr(x.v[i][2])], ", ") \o "}"

\* str(x)
PyStr(x) ==
    CASE x.t = "str" -> x.v
      [] x.t = "text" -> Join(x.v, "")
      [] OTHER -> PyRepr(x)

-----------------------------------------------------------------------------
(* Spelling of the column keys, for the substring tests of format_col *)

Spelling ==
    [url |-> <<"u", "r", "l">>,
     wastedBytes |-> <<"w", "a", "s", "t", "e", "d", "B", "y", "t", "e", "s">>,
     transferSize |-> <<"t", "r", "a", "n", "s", "f", "e", "r", "S", "i", "z", "e">>,
     wastedMs |-> <<"w", "a", "s", "t", "e", "d", "M", "s">>,
     node |-> <<"n", "o", "d", "e">>,
     subItems |-> <<"s", "u", "b", "I", "t", "e", "m", "s">>,
     None |-> <<"N", "o", "n", "e">>]

UpperCase == <<"A", "B", "C", "D", "E", "F", "G", "H", "I", "J", "K", "L", "M",
               "N", "O", "P", "Q", "R", "S", "T", "U", "V", "W", "X", "Y", "Z">>
LowerCase == <<"a", "b", "c", "d", "e", "f", "g", "h", "i", "j", "k", "l", "m",
               "n", "o", "p", "q", "r", "s", "t", "u", "v", "w", "x", "y", "z">>

\* s.lower()
Lower(s) ==
    [i \in DOMAIN s |->
        IF \E j \in DOMAIN UpperCase : UpperCase[j] = s[i]
        THEN LowerCase[CHOOSE j \in DOMAIN UpperCase : UpperCase[j] = s[i]]
        ELSE s[i]]

\* p in s
Contains(s, p) ==
    \E i \in 1..(Len(s) - Len(p) + 1) : SubSeq(s, i, i + Len(p) - 1) = p

\* s.startswith(p)
StartsWith(s, p) == Len(s) >= Len(p) /\ SubSeq(s, 1, Len(p)) = p

\* round(num / den, 0) to the nearest integer, ties to even, for num >= 0
RoundHalfEven(num, den) ==
    LET q == num \div den
        r == num % den
    IN  IF 2 * r < den THEN q
        ELSE IF 2 * r > den THEN q + 1
        ELSE IF q % 2 = 0 THEN q ELSE q + 1

\* the kilobyte taken as 1000 bytes
FormatKBDecimal(val) ==
    LET tenths == RoundHalfEven(val * 10, 1000)
    IN  IntStr(tenths \div 10) \o "." \o Digits[(tenths % 10) + 1] \o " KB"

\* f"{val / 1024:.1f} KB": val / 1024 is exact in binary, so the tie is a true tie
FormatKB(val) ==
    LET tenths == RoundHalfEven(val * 10, 1024)
    IN  IntStr(tenths \div 10) \o "." \o Digits[(tenths % 10) + 1] \o " KB"

\* f"{val/1000:.2f} s"; exact for every val that is no decimal tie (val % 10 # 5)
\* or is a multiple of 125 (val / 1000 is then exact in binary)
FormatSeconds(val) ==
    LET hundredths == RoundHalfEven(val, 10)
    IN  IntStr(hundredths \div 100) \o "." \o Digits[((hundredths \div 10) % 10) + 1]
            \o Digits[(hundredths % 10) + 1] \o " s"

\* f"{val:.0f} ms" of an integer
FormatMs(val) == IntStr(val) \o " ms"

-----------------------------------------------------------------------------
(* clean_value and format_col *)

RECURSIVE clean_value(_)

\* clean_value without the str() around val['value']
clean_value_raw(val) ==
    CASE val.t = "none" -> StrV("")
      [] val.t = "dict" ->
            IF Has(val, "url") THEN Get(val, "url", NoneV)
            ELSE IF Has(val, "snippet") THEN Get(val, "snippet", NoneV)
            ELSE IF Has(val, "value") THEN Get(val, "value", NoneV)
            ELSE IF Has(val, "source") THEN clean_value(Get(val, "source", NoneV))
            ELSE StrV(PyStr(val))
      [] val.t = "list" ->
            LET parts == [i \in DOMAIN val.v |-> clean_value(val.v[i])]
            IN  IF \A i \in DOMAIN parts : parts[i].t = "str"
                THEN StrV(Join([i \in DOMAIN parts |-> parts[i].v], ", "))
                ELSE RaiseV
      [] OTHER -> val

clean_value(val) ==
    CASE val.t = "none" -> StrV("")
      [] val.t = "dict" ->
            IF Has(val, "url") THEN Get(val, "url", NoneV)
            ELSE IF Has(val, "snippet") THEN Get(val, "snippet", NoneV)
            ELSE IF Has(val, "value") THEN StrV(PyStr(Get(val, "value", NoneV)))
            ELSE IF Has(val, "source") THEN clean_value(Get(val, "source", NoneV))
            ELSE StrV(PyStr(val))
      [] val.t = "list" ->
            LET parts == [i \in DOMAIN val.v |-> clean_value(val.v[i])]
            IN  IF \A i \in DOMAIN parts : parts[i].t = "str"
                THEN StrV(Join([i \in DOMAIN parts |-> parts[i].v], ", "))
                ELSE RaiseV     \* str.join raises TypeError on a non-string member
      [] OTHER -> val

\* str(key).lower()
KeyLower(key) == Lower(Spelling[PyStr(key)])

IsByteKey(k) ==
    \/ Contains(k, <<"b", "y", "t", "e">>)
    \/ Contains(k, <<"s", "i", "z", "e">>)
    \/ Contains(k, <<"t", "r", "a", "n", "s", "f", "e", "r">>)

IsTimeKey(k) ==
    \/ Contains(k, <<"t", "i", "m", "e">>)
    \/ Contains(k, <<"m", "s">>)
    \/ Contains(k, <<"d", "u", "r">>)

SecondsAbove == 1000

format_col(key, val) ==
    IF val.t = "num" /\ IsByteKey(KeyLower(key)) THEN StrV(FormatKB(val.v))
    ELSE IF val.t = "num" /\ IsTimeKey(KeyLower(key))
    THEN IF val.v > SecondsAbove THEN StrV(FormatSeconds(val.v)) ELSE StrV(FormatMs(val.v))
    ELSE clean_value(val)

-----------------------------------------------------------------------------
(* The description cleanup: re.sub(r'\[(.*?)\]\(.*?\)', r'\1', description) *)

\* "." matches every character but the newline
NoNewline(s, a, b) == \A x \in a..b : s[x] # "\n"

\* the ends k of a match of \(.*?\) that opens at j + 1, for the "]" at j
LinkCloses(s, j) ==
    {k \in (j + 2)..Len(s) : s[k] = ")" /\ NoNewline(s, j + 2, k - 1)}

\* the positions j of a "](" that ends the lazy group opened by the "[" at i
GroupEnds(s, i) ==
    {j \in (i + 1)..(Len(s) - 2) :
        /\ s[j] = "]"
        /\ s[j + 1] = "("
        /\ NoNewline(s, i + 1, j - 1)
        /\ LinkCloses(s, j) # {}}

Least(S) == CHOOSE x \in S : \A y \in S : x <= y

\* whether the pattern matches with its "[" at i
MatchesAt(s, i) == s[i] = "[" /\ GroupEnds(s, i) # {}

RECURSIVE SubFrom(_, _)

RECURSIVE SubFromDropping(_, _)
\* the substitution with an empty replacement in place of group 1
SubFromDropping(s, i) ==
    IF i > Len(s) THEN <<>>
    ELSE IF MatchesAt(s, i)
    THEN LET j == Least(GroupEnds(s, i))
             k == Least(LinkCloses(s, j))
         IN  SubFromDropping(s, k + 1)
    ELSE <<s[i]>> \o SubFromDropping(s, i + 1)

\* leftmost matches, lazily closed, each replaced by its group 1
SubFrom(s, i) ==
    IF i > Len(s) THEN <<>>
    ELSE IF MatchesAt(s, i)
    THEN LET j == Least(GroupEnds(s, i))
             k == Least(LinkCloses(s, j))
         IN  SubSeq(s, i + 1, j - 1) \o SubFrom(s, k + 1)
    ELSE <<s[i]>> \o SubFrom(s, i + 1)

CleanDescription(description) == TextV(SubFrom(description.v, 1))

-----------------------------------------------------------------------------
(* extract_details *)

\* the marker "↳ " put before the first column of a sub-row
NestMark == "|_ "

NaNV == [t |-> "nan"]

\* item.get(key), key being what h.get('key') gave
ItemGet(item, key) == IF key.t = "str" THEN Get(item, key.v, NoneV) ELSE NoneV

HeaderKey(h) == Get(h, "key", NoneV)

\* label = h.get('text', h.get('label', key))
ParentLabel(h) == Get(h, "text", Get(h, "label", HeaderKey(h)))

\* l = h.get('text', k)
SubLabel(h) == Get(h, "text", HeaderKey(h))

RECURSIVE ParentRow(_, _, _)
\* the dict row after the first n headers
ParentRow(headers, item, n) ==
    IF n = 0 THEN <<>>
    ELSE DictSet(ParentRow(headers, item, n - 1),
                 ParentLabel(headers[n]),
                 format_col(HeaderKey(headers[n]), ItemGet(item, HeaderKey(headers[n]))))

SubCell(headers, h, sub) ==
    LET k == HeaderKey(h)
        v == format_col(k, ItemGet(sub, k))
    IN  IF v = RaiseV THEN RaiseV
        ELSE IF k = HeaderKey(headers[1]) THEN StrV(NestMark \o PyStr(v))
        ELSE v

RECURSIVE SubRow(_, _, _)
\* the dict sub_row after the first n headers
SubRow(headers, sub, n) ==
    IF n = 0 THEN <<>>
    ELSE DictSet(SubRow(headers, sub, n - 1),
                 SubLabel(headers[n]),
                 SubCell(headers, headers[n], sub))

\* 'subItems' in item and item['subItems'].get('items')
HasSubItems(item) ==
    Has(item, "subItems") /\ Truthy(Get(Get(item, "subItems", EmptyDict), "items", NoneV))

RowsOfItem(headers, item) ==
    IF HasSubItems(item)
    THEN LET subs == Get(Get(item, "subItems", EmptyDict), "items", NoneV).v
         IN  <<ParentRow(headers, item, Len(headers))>>
                \o [s \in DOMAIN subs |-> SubRow(headers, subs[s], Len(headers))]
    ELSE <<ParentRow(headers, item, Len(headers))>>

RECURSIVE TableRows(_, _, _)
\* rows after the first n items
TableRows(headers, items, n) ==
    IF n = 0 THEN <<>>
    ELSE TableRows(headers, items, n - 1) \o RowsOfItem(headers, items[n])

RECURSIVE AddColumns(_, _, _)
AddColumns(cols, row, n) ==
    IF n = 0 THEN cols
    ELSE LET sofar == AddColumns(cols, row, n - 1)
         IN  IF \E c \in DOMAIN sofar : sofar[c] = row[n][1]
             THEN sofar ELSE Append(sofar, row[n][1])

RECURSIVE FrameColumns(_, _)
\* the columns of pd.DataFrame(rows): the rows' keys, in the order first seen
FrameColumns(rows, n) ==
    IF n = 0 THEN <<>>
    ELSE AddColumns(FrameColumns(rows, n - 1), rows[n], Len(rows[n]))

RowGet(row, label) ==
    IF \E i \in DOMAIN row : row[i][1] = label
    THEN row[CHOOSE i \in DOMAIN row : row[i][1] = label][2]
    ELSE NaNV

\* pd.DataFrame(rows): a cell a row lacks is NaN
DataFrame(rows) ==
    LET cols == FrameColumns(rows, Len(rows))
    IN  [t |-> "frame",
         columns |-> cols,
         rows |-> [r \in DOMAIN rows |-> [c \in DOMAIN cols |-> RowGet(rows[r], cols[c])]]]

\* DataFrame.empty
FrameEmpty(frame) == Len(frame.rows) = 0 \/ Len(frame.columns) = 0

\* headers = details.get('headings', []), guessed from the first item's keys when empty
TableHeaders(details, items) ==
    LET headings == Get(details, "headings", ListV(<<>>))
    IN  IF Truthy(headings) THEN headings.v
        ELSE [i \in DOMAIN items[1].v |->
                DictV(<< <<"key", StrV(items[1].v[i][1])>>,
                         <<"text", StrV(items[1].v[i][1])>> >>)]

extract_details(audit) ==
    LET details == Get(audit, "details", EmptyDict)
    IN  IF Has(details, "items")
        THEN LET items == Get(details, "items", NoneV)
             IN  IF ~Truthy(items) THEN NoneV
                 ELSE LET headers == TableHeaders(details, items.v)
                          rows == TableRows(headers, items.v, Len(items.v))
                      IN  IF \E r \in DOMAIN rows : \E c \in DOMAIN rows[r] :
                                 rows[r][c][2] = RaiseV
                          THEN RaiseV
                          ELSE DataFrame(rows)
        ELSE NoneV

-----------------------------------------------------------------------------
(* get_grouped_audits *)

\* the "Definitions" of the engineering verticals, in dict order
groups ==
    << <<"JavaScript & CPU",
         {"unused-javascript", "long-tasks", "mainthread-work-breakdown",
          "bootup-time", "script-treemap-data", "third-party-summary"}>>,
       <<"CSS & Design",
         {"unused-css-rules", "render-blocking-resources", "cls",
          "non-composited-animations", "layout-shift-elements"}>>,
       <<"Assets (Images/Fonts)",
         {"modern-image-formats", "properly-size-images", "efficient-animated-content",
          "offscreen-images", "uses-optimized-images"}>>,
       <<"Server & Network",
         {"server-response-time", "uses-text-compression", "redirects",
          "uses-http2", "total-byte-weight"}>> >>

OtherGroup == "Other"

GroupNames == {groups[i][1] : i \in DOMAIN groups} \cup {OtherGroup}

\* scores are kept in hundredths: 0.9, 0.5 and the sort key 1 of a null score
RelevantBelow == 90
HighBelow == 50
NullSortKey == 100

\* has_data = bool(audit.get("details", {}).get("items"))
HasData(audit) == Truthy(Get(Get(audit, "details", EmptyDict), "items", NoneV))

\* is_relevant with the high-priority threshold in place of 0.9
IsRelevantHighOnly(audit) ==
    LET score == Get(audit, "score", NoneV)
    IN  \/ (score # NoneV /\ score.v < HighBelow)
        \/ (score = NoneV /\ HasData(audit))

\* is_relevant
IsRelevant(audit) ==
    LET score == Get(audit, "score", NoneV)
    IN  \/ (score # NoneV /\ score.v < RelevantBelow)
        \/ (score = NoneV /\ HasData(audit))

\* the item dict built for a relevant audit
Finding(key, audit) ==
    [id |-> key,
     title |-> Get(audit, "title", NoneV),
     score |-> Get(audit, "score", NoneV),
     displayValue |-> Get(audit, "displayValue", NoneV),
     description |-> CleanDescription(Get(audit, "description", TextV(<<>>))),
     savings |-> Get(Get(audit, "details", EmptyDict), "overallSavingsMs", NumV(0)),
     data |-> extract_details(audit)]

\* the group an audit id is placed in: the first whose key list holds it, else Other
GroupOf(key) ==
    IF \E i \in DOMAIN groups : key \in groups[i][2]
    THEN groups[Least({i \in DOMAIN groups : key \in groups[i][2]})][1]
    ELSE OtherGroup

RECURSIVE Place(_, _)
\* output after the first n audits of the loop
Place(audits, n) ==
    IF n = 0 THEN [g \in GroupNames |-> <<>>]
    ELSE LET sofar == Place(audits, n - 1)
             key == audits[n][1]
             audit == audits[n][2]
         IN  IF IsRelevant(audit)
             THEN [sofar EXCEPT ![GroupOf(key)] = Append(@, Finding(key, audit))]
             ELSE sofar

SortKey(x) == IF x.score # NoneV THEN x.score.v ELSE NullSortKey

\* list.insert keeping the order of equal keys: sorted() is stable
InsertSorted(sorted, x) ==
    LET after == {i \in DOMAIN sorted : SortKey(sorted[i]) <= SortKey(x)}
        n == Cardinality(after)
    IN  SubSeq(sorted, 1, n) \o <<x>> \o SubSeq(sorted, n + 1, Len(sorted))

RECURSIVE SortByScore(_, _)
\* sorted(findings, key=score or 1), the first n of them
SortByScore(findings, n) ==
    IF n = 0 THEN <<>>
    ELSE InsertSorted(SortByScore(findings, n - 1), findings[n])

\* RaiseV when extract_details raised inside the loop
get_grouped_audits(lighthouse) ==
    LET audits == Get(lighthouse, "audits", EmptyDict).v
        output == Place(audits, Len(audits))
    IN  IF \E g \in GroupNames : \E i \in DOMAIN output[g] : output[g][i].data = RaiseV
        THEN RaiseV
        ELSE [g \in GroupNames |-> SortByScore(output[g], Len(output[g]))]

-----------------------------------------------------------------------------
(* run_pagespeed *)

HttpPrefix == <<"h", "t", "t", "p">>
HttpsScheme == <<"h", "t", "t", "p", "s", ":", "/", "/">>

\* if not url.startswith("http"): url = "https://" + url
NormalizeUrl(url) == IF ~StartsWith(url, HttpPrefix) THEN HttpsScheme \o url ELSE url

\* the f-string of api_url, kept as its fragments
ApiUrl(url, strat, key) ==
    <<"https://www.googleapis.com/pagespeedonline/v5/runPagespeed?url=">>
        \o NormalizeUrl(url)
        \o <<"&strategy=", strat, "&category=performance&category=seo">>
        \o (IF key # "" THEN <<"&key=", key>> ELSE <<>>)

NotJson == [t |-> "notjson"]

\* str(e) of the JSONDecodeError response.json() raises
JsonErrorText == "Expecting value: line 1 column 1 (char 0)"

HttpOk == 200

\* the non-200 branch without the look into the body
UpstreamStatusOnly(resp) == StrV("Status " \o IntStr(resp.status_code))

\* err of the non-200 branch: the body's error.message, 'Unknown' without one,
\* the status when the body is no JSON object or its error is no object
UpstreamMessage(resp) ==
    IF resp.body = NotJson \/ ~IsDict(resp.body)
    THEN StrV("Status " \o IntStr(resp.status_code))
    ELSE LET e == Get(resp.body, "error", EmptyDict)
         IN  IF ~IsDict(e) THEN StrV("Status " \o IntStr(resp.status_code))
             ELSE Get(e, "message", StrV("Unknown"))

\* the pair (data, err) run_pagespeed returns
RunResult(outcome) ==
    IF outcome.kind = "exception"
    THEN <<NoneV, StrV("Connection Error: " \o outcome.msg)>>
    ELSE IF outcome.status_code = HttpOk
    THEN IF outcome.body = NotJson
         THEN <<NoneV, StrV("Connection Error: " \o JsonErrorText)>>
         ELSE <<outcome.body, NoneV>>
    ELSE <<NoneV, StrV("Google API Error: " \o PyStr(UpstreamMessage(outcome)))>>

-----------------------------------------------------------------------------
(* The page *)

tab_map ==
    <<"JavaScript & CPU", "CSS & Design", "Assets (Images)", "Server & Network", "Other">>

FIX_PROTOCOLS ==
    {"unused-javascript", "unused-css-rules", "render-blocking-resources",
     "modern-image-formats", "properly-size-images", "server-response-time",
     "third-party-summary"}

\* the icons: "red" is the red circle, "yellow" the yellow one, "info" the i
Icon(item) ==
    IF item.score = NoneV THEN "info"
    ELSE IF item.score.v < HighBelow THEN "red" ELSE "yellow"

\* one st.expander
Section(item) ==
    [id |-> item.id,
     icon |-> Icon(item),
     title |-> Icon(item) \o " " \o PyStr(item.title)
                 \o (IF Truthy(item.displayValue)
                     THEN " -- " \o PyStr(item.displayValue) ELSE ""),
     description |-> item.description,
     protocol |-> item.id \in FIX_PROTOCOLS,
     evidence |-> IF item.data # NoneV /\ ~FrameEmpty(item.data)
                  THEN item.data ELSE NoneV]

\* grouped_findings.get(category, [])
TabFindings(grouped, category) ==
    IF category \in DOMAIN grouped THEN grouped[category] ELSE <<>>

\* what one tab of the loop shows
Tab(grouped, i) ==
    LET findings == TabFindings(grouped, tab_map[i])
    IN  [category |-> tab_map[i],
         clean |-> Len(findings) = 0,
         sections |-> [j \in DOMAIN findings |-> Section(findings[j])]]

NoPage == [error |-> NoneV, tabs |-> <<>>]

-----------------------------------------------------------------------------
(* The handler, in three steps *)

\* data, err = run_pagespeed(url_input, strategy, api_key)
RunPagespeed ==
    /\ pc = "scan"
    /\ api_url' = ApiUrl(url_input, strategy, api_key)
    /\ data' = RunResult(upstream)[1]
    /\ err' = RunResult(upstream)[2]
    /\ pc' = "fetched"
    /\ UNCHANGED <<url_input, strategy, api_key, upstream, grouped_findings, page,
                   cell_key, cell_val, cell_out>>

\* if err: st.error(err); else: lh = data.get(...); grouped_findings = get_grouped_audits(lh)
HandleResult ==
    /\ pc = "fetched"
    /\ IF Truthy(err)
       THEN /\ page' = [page EXCEPT !.error = err]
            /\ pc' = "error"
            /\ UNCHANGED grouped_findings
       ELSE IF ~IsDict(data)
       THEN /\ pc' = "fault"      \* data.get raises AttributeError
            /\ UNCHANGED <<page, grouped_findings>>
       ELSE LET lh == Get(data, "lighthouseResult", EmptyDict)
                out == get_grouped_audits(lh)
            IN  IF out = RaiseV
                THEN /\ pc' = "fault"
                     /\ UNCHANGED <<page, grouped_findings>>
                ELSE /\ grouped_findings' = out
                     /\ pc' = "grouped"
                     /\ UNCHANGED page
    /\ UNCHANGED <<url_input, strategy, api_key, upstream, api_url, data, err,
                   cell_key, cell_val, cell_out>>

\* for i, tab in enumerate(tabs): ...
RenderTabs ==
    /\ pc = "grouped"
    /\ page' = [page EXCEPT !.tabs = [i \in DOMAIN tab_map |-> Tab(grouped_findings, i)]]
    /\ pc' = "rendered"
    /\ UNCHANGED <<url_input, strategy, api_key, upstream, api_url, data, err,
                   grouped_findings, cell_key, cell_val, cell_out>>

Next == RunPagespeed \/ HandleResult \/ RenderTabs

-----------------------------------------------------------------------------
(* The flattening of one cell, pass after pass *)

\* row[label] = format_col(key, val)
FlattenOnce ==
    /\ pc = "cell"
    /\ Len(cell_out) = 0
    /\ format_col(cell_key, cell_val) # RaiseV
    /\ cell_out' = <<format_col(cell_key, cell_val)>>
    /\ UNCHANGED <<pc, url_input, strategy, api_key, upstream, api_url, data, err,
                   grouped_findings, page, cell_key, cell_val>>

\* the same flattening, applied to the cell it made
FlattenAgain ==
    /\ pc = "cell"
    /\ Len(cell_out) = 1
    /\ format_col(cell_key, cell_out[1]) # RaiseV
    /\ cell_out' = Append(cell_out, format_col(cell_key, cell_out[1]))
    /\ UNCHANGED <<pc, url_input, strategy, api_key, upstream, api_url, data, err,
                   grouped_findings, page, cell_key, cell_val>>

NextFlatten == FlattenOnce \/ FlattenAgain

-----------------------------------------------------------------------------
(* Inputs *)

MaxAudits == 2
MaxHeadings == 2
MaxItems == 2
MaxDescLen == 6
MaxListLen == 2

\* sequences over S of length at most n
SeqsUpTo(S, n) == UNION {[1..m -> S] : m \in 0..n}

ExampleUrl == <<"a", ".", "i", "o">>
Urls ==
    {ExampleUrl,
     <<"h", "t", "t", "p", "b", "i", "n", ".", "o", "r", "g">>,
     <<"h", "t", "t", "p", ":", "/", "/">> \o ExampleUrl,
     HttpsScheme \o ExampleUrl}

Strategies == {"mobile", "desktop"}
ApiKeys == {"", "AIzaKey"}

Response(code, body) == [kind |-> "response", status_code |-> code, body |-> body]
TimedOut == [kind |-> "exception", msg |-> "Read timed out."]

ErrorBody(m) == DictV(<< <<"error", DictV(<< <<"message", StrV(m)>> >>)>> >>)

\* an audit of the response
Audit(id, score, mode, desc, details) ==
    DictV(<< <<"id", StrV(id)>>, <<"title", StrV(id)>>, <<"description", TextV(desc)>>,
             <<"score", score>>, <<"scoreDisplayMode", StrV(mode)>> >>
          \o (IF details = NoneV THEN <<>> ELSE << <<"details", details>> >>))

\* a 200 body holding the audits, a sequence of <<id, audit>>
Lighthouse(audits) ==
    DictV(<< <<"lighthouseResult", DictV(<< <<"audits", DictV(audits)>> >>)>> >>)

Heading(key, field, label) ==
    DictV(<< <<"key", StrV(key)>> >> \o (IF field = "" THEN <<>> ELSE << <<field, StrV(label)>> >>))

ExampleHeadings == <<Heading("url", "text", "Resource"), Heading("wastedBytes", "text", "Wasted")>>
ExampleItem == DictV(<< <<"url", StrV("a.css")>>, <<"wastedBytes", NumV(10240)>> >>)
ExampleTable == DictV(<< <<"items", ListV(<<ExampleItem>>)>>, <<"headings", ListV(ExampleHeadings)>> >>)
ExampleDescription ==
    <<"Reduce unused CSS.", " ", "[", "Learn more", "]", "(", "https://x.test", ")">>

PlainDescription == <<"Serve images in next-gen formats.">>

FetchBodies ==
    {NotJson, NoneV, ListV(<<>>), EmptyDict,
     ErrorBody("Invalid URL"), ErrorBody("Quota exceeded"),
     DictV(<< <<"error", EmptyDict>> >>),
     DictV(<< <<"error", StrV("denied")>> >>),
     Lighthouse(<< <<"unused-css-rules",
                     Audit("unused-css-rules", NumV(30), "numeric", ExampleDescription, ExampleTable)>> >>)}

FetchOutcomes == {TimedOut} \cup {Response(c, b) : c \in {200, 400, 500}, b \in FetchBodies}

AuditIds ==
    {"unused-javascript", "unused-css-rules", "modern-image-formats",
     "server-response-time", "viewport"}

\* <<score, scoreDisplayMode, details>> of the audits drawn
AuditShapes ==
    {<<NumV(30), "numeric", ExampleTable>>,
     <<NumV(50), "numeric", NoneV>>,
     <<NumV(89), "binary", NoneV>>,
     <<NumV(90), "numeric", NoneV>>,
     <<NoneV, "informative", ExampleTable>>,
     <<NoneV, "informative", NoneV>>,
     <<NumV(0), "notApplicable", NoneV>>,
     <<NoneV, "notApplicable", ExampleTable>>}

AuditEntries ==
    {<<id, Audit(id, sh[1], sh[2], PlainDescription, sh[3])>> : id \in AuditIds, sh \in AuditShapes}

AuditMaps ==
    {a \in SeqsUpTo(AuditEntries, MaxAudits) :
        \A i, j \in DOMAIN a : i # j => a[i][1] # a[j][1]}

TypeInit(u, s, k, up) ==
    /\ pc = "scan"
    /\ url_input = u
    /\ strategy = s
    /\ api_key = k
    /\ upstream = up
    /\ api_url = <<>>
    /\ data = NoneV
    /\ err = NoneV
    /\ grouped_findings = [g \in GroupNames |-> <<>>]
    /\ page = NoPage
    /\ cell_key = NoneV
    /\ cell_val = NoneV
    /\ cell_out = <<>>

\* the fetch boundary: every url, strategy and key against every upstream outcome
InitFetch ==
    \E u \in Urls, s \in Strategies, k \in ApiKeys, up \in FetchOutcomes : TypeInit(u, s, k, up)

SpecFetch == InitFetch /\ [][Next]_vars

\* classification and grouping: a successful scan over every audit map
InitAudits ==
    \E a \in AuditMaps : TypeInit(ExampleUrl, "mobile", "", Response(200, Lighthouse(a)))

SpecAudits == InitAudits /\ [][Next]_vars

\* evidence tables: a scan whose one audit carries every table payload
HeadingPool ==
    {Heading("url", "text", "Resource"), Heading("wastedBytes", "text", "Wasted"),
     Heading("url", "label", "URL"), Heading("wastedMs", "", "")}

HeadingSeqs ==
    {h \in SeqsUpTo(HeadingPool, MaxHeadings) : \A i, j \in DOMAIN h : i # j => h[i] # h[j]}

SubItemOne == DictV(<< <<"url", StrV("c.js")>>, <<"wastedBytes", NumV(256)>> >>)
SubItemTwo == DictV(<< <<"url", StrV("d.js")>>, <<"wastedMs", NumV(1500)>> >>)
SubItems(subs) == DictV(<< <<"items", ListV(subs)>> >>)

ItemPool ==
    {ExampleItem,
     DictV(<< <<"url", StrV("b.js")>>, <<"wastedBytes", NumV(2048)>>, <<"wastedMs", NumV(800)>> >>),
     DictV(<< <<"node", DictV(<< <<"snippet", StrV("<img>")>> >>)>>, <<"wastedMs", NumV(1500)>> >>),
     DictV(<< <<"url", StrV("b.js")>>, <<"wastedBytes", NumV(2048)>>,
              <<"subItems", SubItems(<<SubItemOne>>)>> >>),
     DictV(<< <<"url", StrV("b.js")>>, <<"subItems", SubItems(<<SubItemOne, SubItemTwo>>)>> >>),
     DictV(<< <<"url", StrV("e.js")>>, <<"subItems", SubItems(<<>>)>> >>)}

ItemSeqs == SeqsUpTo(ItemPool, MaxItems)

Table(headings, items) ==
    DictV(<< <<"items", ListV(items)>> >>
          \o (IF Len(headings) = 0 THEN <<>> ELSE << <<"headings", ListV(headings)>> >>))

DetailScores == {NumV(30), NumV(49)}

InitDetails ==
    \E h \in HeadingSeqs, it \in ItemSeqs, sc \in DetailScores :
        TypeInit(ExampleUrl, "mobile", "",
                 Response(200, Lighthouse(<< <<"unused-css-rules",
                     Audit("unused-css-rules", sc, "numeric", ExampleDescription,
                           Table(h, it))>> >>)))

SpecDetails == InitDetails /\ [][Next]_vars

\* descriptions: a scan whose one audit carries every short description
DescAtoms == {"[", "]", "(", ")", "t", "\n"}

Descriptions == SeqsUpTo(DescAtoms, MaxDescLen) \cup {ExampleDescription}

InitClean ==
    \E d \in Descriptions :
        TypeInit(ExampleUrl, "mobile", "",
                 Response(200, Lighthouse(<< <<"unused-css-rules",
                     Audit("unused-css-rules", NumV(30), "numeric", d, NoneV)>> >>)))

SpecClean == InitClean /\ [][Next]_vars

\* cells: every key against every cell value of the shapes the API's tables hold
CellKeys == {StrV("url"), StrV("wastedBytes"), StrV("transferSize"), StrV("wastedMs"), StrV("node")}

CellStrings == {StrV(""), StrV("a.css")}
CellNumbers == {NumV(0), NumV(256), NumV(800), NumV(1500), NumV(10240)}
CellPrimitives == {NoneV} \cup CellStrings \cup CellNumbers

CellObjects ==
    {DictV(<< <<"type", StrV("url")>>, <<"url", StrV("a.css")>> >>),
     DictV(<< <<"snippet", StrV("<img>")>>, <<"selector", StrV("img")>> >>),
     DictV(<< <<"type", StrV("numeric")>>, <<"value", NumV(2048)>> >>),
     DictV(<< <<"value", StrV("x")>> >>),
     DictV(<< <<"type", StrV("debugdata")>> >>)}

CellSources == {DictV(<< <<"source", o>> >>) : o \in CellObjects}

CellMembers == {NoneV, StrV("a.css")} \cup CellObjects

CellLists == {ListV(l) : l \in SeqsUpTo(CellMembers, MaxListLen)}

CellValues == CellPrimitives \cup CellObjects \cup CellSources \cup CellLists

InitFlatten ==
    /\ pc = "cell"
    /\ cell_key \in CellKeys
    /\ cell_val \in CellValues
    /\ cell_out = <<>>
    /\ url_input = <<>>
    /\ strategy = "mobile"
    /\ api_key = ""
    /\ upstream = TimedOut
    /\ api_url = <<>>
    /\ data = NoneV
    /\ err = NoneV
    /\ grouped_findings = [g \in GroupNames |-> <<>>]
    /\ page = NoPage

SpecFlatten == InitFlatten /\ [][NextFlatten]_vars

-----------------------------------------------------------------------------
(* Claims about the fetch boundary (SpecFetch) *)

Returned == pc # "scan" /\ pc # "cell"

HttpScheme == <<"h", "t", "t", "p", ":", "/", "/">>
HasScheme(url) == StartsWith(url, HttpScheme) \/ StartsWith(url, HttpsScheme)

\* the url parameter of the request: what lies between the endpoint and "&strategy="
RequestedUrl ==
    SubSeq(api_url, 2,
           Least({i \in DOMAIN api_url : api_url[i] = "&strategy="}) - 1)

\* C3: run_pagespeed returns with exactly one of data and err non-null, whatever the
\* GET met, and the handler's branch on them never faults.
C3_ExactlyOneOfDataAndError ==
    Returned => /\ (data = NoneV) # (err = NoneV)
                /\ pc # "fault"

\* C4 as stated: for a non-200 answer whose body is {"error": {"message": M}} the
\* error returned is exactly M, and the status code when the body is no JSON.
C4_ErrorIsExactlyTheMessage ==
    (Returned /\ upstream.kind = "response" /\ upstream.status_code # 200) =>
        /\ \A m \in {"Invalid URL", "Quota exceeded"} :
              upstream.body = ErrorBody(m) => err = StrV(m)
        /\ upstream.body = NotJson =>
              err \in {StrV("Status " \o IntStr(upstream.status_code)),
                       StrV("Google API Error: Status " \o IntStr(upstream.status_code))}

\* C4 as amended: for a non-200 answer whose body is {"error": {"message": M}} the
\* error returned is "Google API Error: " followed by exactly M, and
\* "Google API Error: Status <code>" when the body is no JSON.
C4_ErrorCarriesTheMessage ==
    (Returned /\ upstream.kind = "response" /\ upstream.status_code # 200) =>
        /\ data = NoneV
        /\ \A m \in {"Invalid URL", "Quota exceeded"} :
              upstream.body = ErrorBody(m) => err = StrV("Google API Error: " \o m)
        /\ upstream.body = NotJson =>
              err = StrV("Google API Error: Status " \o IntStr(upstream.status_code))

C4_Witness ==
    /\ pc = "error"
    /\ upstream = Response(400, ErrorBody("Invalid URL"))
    /\ page.error = StrV("Google API Error: Invalid URL")

\* C9: the url requested is "https://" + url exactly when url has no http:// or
\* https:// scheme, and url itself when it has one.
C9_PrefixExactlyWhenNoScheme ==
    Returned =>
        RequestedUrl = (IF HasScheme(url_input) THEN url_input ELSE HttpsScheme \o url_input)

-----------------------------------------------------------------------------
(* Claims about classification, grouping and the tabs (SpecAudits) *)

Grouped == pc = "grouped" \/ pc = "rendered"

\* the audits of the response, a sequence of <<id, audit>>
InputAudits ==
    Get(Get(upstream.body, "lighthouseResult", EmptyDict), "audits", EmptyDict).v

\* where the findings of an audit id lie: <<group, index>>
FindingsOf(id) ==
    {<<g, j>> \in GroupNames \X (1..Len(InputAudits)) :
        j \in DOMAIN grouped_findings[g] /\ grouped_findings[g][j].id = id}

\* C1: every audit with a non-null score below 0.9 is a finding of exactly one group,
\* with the red icon when its score is below 0.5 and the yellow icon otherwise.
C1_FailingAuditIsFinding ==
    Grouped =>
        \A i \in DOMAIN InputAudits :
            LET score == Get(InputAudits[i][2], "score", NoneV)
            IN  (score # NoneV /\ score.v < 90) =>
                    /\ Cardinality(FindingsOf(InputAudits[i][1])) = 1
                    /\ \A w \in FindingsOf(InputAudits[i][1]) :
                          /\ grouped_findings[w[1]][w[2]].score = score
                          /\ Icon(grouped_findings[w[1]][w[2]])
                                = (IF score.v < 50 THEN "red" ELSE "yellow")

C1_Witness ==
    /\ pc = "grouped"
    /\ \E g \in GroupNames : \E j \in DOMAIN grouped_findings[g] :
          grouped_findings[g][j].score = NumV(30) /\ Icon(grouped_findings[g][j]) = "red"
    /\ \E g \in GroupNames : \E j \in DOMAIN grouped_findings[g] :
          grouped_findings[g][j].score = NumV(89) /\ Icon(grouped_findings[g][j]) = "yellow"

\* C2: an audit whose scoreDisplayMode is notApplicable is in no group of the
\* findings, whatever its score and details.
C2_NotApplicableNeverFinding ==
    Grouped =>
        \A i \in DOMAIN InputAudits :
            Get(InputAudits[i][2], "scoreDisplayMode", NoneV) = StrV("notApplicable")
                => FindingsOf(InputAudits[i][1]) = {}

\* the group whose findings the i-th tab is made for
GroupOfTab(i) == IF i \in DOMAIN groups THEN groups[i][1] ELSE OtherGroup

\* C5: every finding of each of the five groups is one expandable section of the
\* page, and no tab reports "Clean!" while its group holds findings.
C5_EveryFindingIsRendered ==
    pc = "rendered" =>
        /\ \A g \in GroupNames : \A j \in DOMAIN grouped_findings[g] :
              Cardinality({<<i, k>> \in (DOMAIN page.tabs) \X (1..Len(InputAudits)) :
                              /\ k \in DOMAIN page.tabs[i].sections
                              /\ page.tabs[i].sections[k].id = grouped_findings[g][j].id}) = 1
        /\ \A i \in DOMAIN page.tabs :
              page.tabs[i].clean => Len(grouped_findings[GroupOfTab(i)]) = 0

-----------------------------------------------------------------------------
(* Claims about the evidence table (SpecDetails) *)

\* the one audit of the scan, and its table payload
OnlyAudit == InputAudits[1][2]
InputDetails == Get(OnlyAudit, "details", EmptyDict)
InputHeadings == Get(InputDetails, "headings", ListV(<<>>)).v
InputItems == Get(InputDetails, "items", ListV(<<>>)).v

\* every finding of every group, as <<group, index>>
AllFindings ==
    {<<g, j>> \in GroupNames \X (1..Len(InputAudits)) : j \in DOMAIN grouped_findings[g]}

\* the rows and columns of a finding's evidence table; none without a table
EvidenceRows(f) == IF f.data = NoneV THEN <<>> ELSE f.data.rows
EvidenceColumns(f) == IF f.data = NoneV THEN <<>> ELSE f.data.columns

\* headings with key and text, items without subItems
PlainTable ==
    /\ Len(InputHeadings) > 0
    /\ \A c \in DOMAIN InputHeadings :
          Has(InputHeadings[c], "key") /\ Has(InputHeadings[c], "text")
    /\ \A r \in DOMAIN InputItems : ~Has(InputItems[r], "subItems")

\* C6: one audit with score < 0.5 and a plain table gives exactly one finding over
\* all groups, high priority, whose evidence table has one row per item in item
\* order and one column per heading, named by the heading's text, each cell the
\* formatted value; the unused-css-rules payload gives the one row
\* Resource = "a.css", Wasted = "10.0 KB".
C6_EndToEndTable ==
    (Grouped /\ PlainTable) =>
        /\ Cardinality(AllFindings) = 1
        /\ \A w \in AllFindings :
              LET f == grouped_findings[w[1]][w[2]]
              IN  /\ f.id = InputAudits[1][1]
                  /\ Icon(f) = "red"
                  /\ Len(EvidenceRows(f)) = Len(InputItems)
                  /\ Len(InputItems) > 0 =>
                        EvidenceColumns(f)
                            = [c \in DOMAIN InputHeadings |-> Get(InputHeadings[c], "text", NoneV)]
                  /\ \A r \in DOMAIN EvidenceRows(f) : \A c \in DOMAIN InputHeadings :
                        EvidenceRows(f)[r][c]
                            = format_col(HeaderKey(InputHeadings[c]),
                                         ItemGet(InputItems[r], HeaderKey(InputHeadings[c])))
                  /\ InputDetails = ExampleTable =>
                        /\ EvidenceColumns(f) = <<StrV("Resource"), StrV("Wasted")>>
                        /\ EvidenceRows(f) = << <<StrV("a.css"), StrV("10.0 KB")>> >>

C6_Witness ==
    /\ pc = "grouped"
    /\ InputDetails = ExampleTable
    /\ Get(OnlyAudit, "score", NoneV) = NumV(30)
    /\ Len(grouped_findings["CSS & Design"]) = 1
    /\ grouped_findings["CSS & Design"][1].data.rows = << <<StrV("a.css"), StrV("10.0 KB")>> >>

\* the column label the claim gives a heading: text, else label, else the raw key
ClaimedLabel(h) == Get(h, "text", Get(h, "label", HeaderKey(h)))

ClaimedParent(item) ==
    [c \in DOMAIN InputHeadings |->
        format_col(HeaderKey(InputHeadings[c]), ItemGet(item, HeaderKey(InputHeadings[c])))]

\* a sub-row: the first column prefixed, the others as formatted
ClaimedSub(sub) ==
    [c \in DOMAIN InputHeadings |->
        LET v == format_col(HeaderKey(InputHeadings[c]), ItemGet(sub, HeaderKey(InputHeadings[c])))
        IN  IF c = 1 THEN StrV(NestMark \o PyStr(v)) ELSE v]

ClaimedRowsOf(item) ==
    IF HasSubItems(item)
    THEN <<ClaimedParent(item)>>
            \o [s \in DOMAIN Get(Get(item, "subItems", EmptyDict), "items", NoneV).v |->
                   ClaimedSub(Get(Get(item, "subItems", EmptyDict), "items", NoneV).v[s])]
    ELSE <<ClaimedParent(item)>>

RECURSIVE ClaimedRows(_)
ClaimedRows(n) == IF n = 0 THEN <<>> ELSE ClaimedRows(n - 1) \o ClaimedRowsOf(InputItems[n])

\* headings present, with distinct labels, and at least one item
NestedTable ==
    /\ Len(InputHeadings) > 0
    /\ Len(InputItems) > 0
    /\ \A c, d \in DOMAIN InputHeadings :
          c # d => /\ ClaimedLabel(InputHeadings[c]) # ClaimedLabel(InputHeadings[d])
                   /\ HeaderKey(InputHeadings[c]) # HeaderKey(InputHeadings[d])

\* C10: the table is each item's row followed by one row per sub-item, in payload
\* order; a sub-row has its parent's column labels (text, else label, else key) and
\* only its first column carries the nesting prefix.
C10_SubRowsUnderParentColumns ==
    (Grouped /\ NestedTable) =>
        \A w \in AllFindings :
            LET f == grouped_findings[w[1]][w[2]]
            IN  /\ EvidenceColumns(f)
                      = [c \in DOMAIN InputHeadings |-> ClaimedLabel(InputHeadings[c])]
                /\ EvidenceRows(f) = ClaimedRows(Len(InputItems))

\* what of C10 the code does: the same, when every heading has a text
C10_HoldsWithText ==
    (Grouped /\ NestedTable
        /\ \A c \in DOMAIN InputHeadings : Has(InputHeadings[c], "text")) =>
        \A w \in AllFindings :
            LET f == grouped_findings[w[1]][w[2]]
            IN  /\ EvidenceColumns(f)
                      = [c \in DOMAIN InputHeadings |-> ClaimedLabel(InputHeadings[c])]
                /\ EvidenceRows(f) = ClaimedRows(Len(InputItems))

-----------------------------------------------------------------------------
(* Claims about the description cleanup (SpecClean) *)

InputDescription == Get(OnlyAudit, "description", TextV(<<>>)).v

\* whether a [...](...) link is left in s
HasLink(s) == \E i \in DOMAIN s : MatchesAt(s, i)

Delimiters == {"[", "]", "(", ")"}

RECURSIVE WellFormedFrom(_, _, _)
\* s from i on is prose and links [text](url), the delimiters nowhere else and no
\* link broken over lines; mode says where position i lies
WellFormedFrom(s, i, mode) ==
    IF i > Len(s) THEN mode = "prose"
    ELSE CASE mode = "prose" ->
                 IF s[i] = "[" THEN WellFormedFrom(s, i + 1, "text")
                 ELSE s[i] \notin Delimiters /\ WellFormedFrom(s, i + 1, "prose")
           [] mode = "text" ->
                 IF s[i] = "]"
                 THEN i < Len(s) /\ s[i + 1] = "(" /\ WellFormedFrom(s, i + 2, "url")
                 ELSE s[i] \notin Delimiters /\ s[i] # "\n" /\ WellFormedFrom(s, i + 1, "text")
           [] mode = "url" ->
                 IF s[i] = ")" THEN WellFormedFrom(s, i + 1, "prose")
                 ELSE s[i] \notin Delimiters /\ s[i] # "\n" /\ WellFormedFrom(s, i + 1, "url")

WellFormed(s) == WellFormedFrom(s, 1, "prose")

\* position i of a well-formed s lies in a link's (url)
InUrl(s, i) ==
    \/ s[i] = ")"
    \/ \E p \in 1..i : s[p] = "(" /\ \A q \in p..i : s[q] # ")"

RECURSIVE LinksAsText(_, _)
\* a well-formed s with every link replaced by its text, from position i on
LinksAsText(s, i) ==
    IF i > Len(s) THEN <<>>
    ELSE IF s[i] \in {"[", "]"} \/ InUrl(s, i) THEN LinksAsText(s, i + 1)
    ELSE <<s[i]>> \o LinksAsText(s, i + 1)

\* C7 as stated: the link goes, text and url: the example description is cleaned to
\* "Reduce unused CSS." and no cleaned description holds a [...](...) link.
C7_LinksAreRemoved ==
    Grouped =>
        \A w \in AllFindings :
            LET cleaned == grouped_findings[w[1]][w[2]].description
            IN  /\ InputDescription = ExampleDescription =>
                      PyStr(cleaned) \in {"Reduce unused CSS.", "Reduce unused CSS. "}
                /\ ~HasLink(cleaned.v)

\* C7 as amended: each link is replaced by its text, the brackets and the url
\* dropped: the example description is cleaned to "Reduce unused CSS. Learn more",
\* and a description whose brackets and parentheses only delimit links, none broken
\* over lines, is cleaned to itself with each link replaced by its text, no link left.
C7_LinksBecomeTheirText ==
    Grouped =>
        \A w \in AllFindings :
            LET cleaned == grouped_findings[w[1]][w[2]].description
            IN  /\ InputDescription = ExampleDescription =>
                      PyStr(cleaned) = "Reduce unused CSS. Learn more"
                /\ WellFormed(InputDescription) =>
                      /\ cleaned.v = LinksAsText(InputDescription, 1)
                      /\ ~HasLink(cleaned.v)
                      /\ \A i \in DOMAIN cleaned.v : cleaned.v[i] \notin Delimiters

C7_Witness ==
    /\ pc = "grouped"
    /\ InputDescription = ExampleDescription
    /\ grouped_findings["CSS & Design"][1].description
          = TextV(<<"Reduce unused CSS.", " ", "Learn more">>)

-----------------------------------------------------------------------------
(* Claims about the flattening of a cell (SpecFlatten) *)

\* the keys format_col renders with a unit, among CellKeys
UnitKeys == {StrV("wastedBytes"), StrV("transferSize"), StrV("wastedMs")}

\* C8 as stated: a primitive cell comes back unchanged, and flattening the
\* flattened cell gives what flattening once gave.
C8_FlatCellUnchanged ==
    /\ (Len(cell_out) >= 1 /\ cell_val \in CellStrings \cup CellNumbers) =>
          cell_out[1] = cell_val
    /\ Len(cell_out) = 2 => cell_out[2] = cell_out[1]

\* C8 as amended: a string cell, and a number under a key that names no unit, comes
\* back unchanged; a number under a byte/size/transfer or time/ms/dur key comes back
\* as a string with its unit and null as the empty string; the flattened cell is
\* never a nested structure, and flattening it again gives what flattening once gave.
C8_FlattenIdempotent ==
    /\ Len(cell_out) >= 1 =>
          /\ cell_val \in CellStrings => cell_out[1] = cell_val
          /\ (cell_val \in CellNumbers /\ cell_key \notin UnitKeys) => cell_out[1] = cell_val
          /\ (cell_val \in CellNumbers /\ cell_key \in UnitKeys) => cell_out[1].t = "str"
          /\ cell_val = NoneV => cell_out[1] = StrV("")
          /\ cell_out[1].t \in {"str", "num"}
    /\ Len(cell_out) = 2 => cell_out[2] = cell_out[1]

C8_Witness ==
    /\ Len(cell_out) = 2
    /\ cell_key = StrV("transferSize")
    /\ cell_val = DictV(<< <<"source", DictV(<< <<"type", StrV("numeric")>>, <<"value", NumV(2048)>> >>)>> >>)
    /\ cell_out[2] = StrV("2048")

====
